---- MODULE Spec2Model ----
(***************************************************************************)
(* A model of split.py: the lazy, single-pass generators split, partition  *)
(* and groupby, each driven by a consumer that decides which derived       *)
(* sequence to pull next.  One action is one resumption step of the        *)
(* generator that is currently running: a generator runs from the          *)
(* consumer's next() until it yields, returns or raises, and pulls at most *)
(* one source item per step.                                               *)
(***************************************************************************)
EXTENDS Integers, Sequences, FiniteSets

(* Bounds of the model. *)
MaxLen == 4
MaxItem == 2
MaxLiveLen == 3     \* longest source of the liveness check
MaxChunk == 3       \* largest chunk size

Items == 0..MaxItem

Sources == UNION {[1..n -> Items] : n \in 0..MaxLen}

VARIABLES
    fn,         \* which library function was called: "none" before the call
    source,     \* the finite source handed to the call
    pos,        \* number of items pulled from the source so far
    cur,        \* the generator that is running: <<kind, id>>, Idle when the consumer has control
    consumer,   \* the consumer's schedule: "immediate" (list(map(join, ...))) or "any"
    \* ---- split
    delimiter,  \* the delimiter value (wrapped as partial(eq, delimiter))
    active,     \* OrderedDict keys, oldest first
    buffers,    \* buffers[i]: the deque created for segment i
    id,         \* the id counter of split
    outerPc,    \* "loop" | "final" (suspended at the yield of the empty-source segment) | "done"
    yielded,    \* segment ids yielded by the outer sequence, in order
    segPc,      \* segPc[i]: "created" | "loop" | "done" | "error"
    segOut,     \* segOut[i]: items segment i has yielded
    \* ---- partition
    teeBuf,     \* teeBuf[h]: (pred_value, item) pairs tee holds for half h (1 = true_seq, 2 = false_seq)
    halfPc,     \* halfPc[h]: "loop" | "done"
    halfOut,    \* halfOut[h]: items half h has yielded
    \* ---- groupby
    keyfn,      \* the key function: "identity" (the default) or "mod2"
    pep479,     \* TRUE when the interpreter turns StopIteration inside a generator into RuntimeError
    kbuffers,   \* the defaultdict: kbuffers[k] is the deque of key k
    bufKeys,    \* the keys of the defaultdict in insertion order
    seen_keys,  \* keys already yielded with a group view
    gOuterPc,   \* "loop" | "final" (inside the final pass) | "done"
    finalIdx,   \* position of the final pass in bufKeys
    pairs,      \* (key, kind) pairs yielded by the outer sequence; kind is "view" or "deque"
    groupPc,    \* groupPc[k]: "none" | "loop" | "done" | "error" | "reread" (a deque iterated twice)
    groupOut,   \* groupOut[k]: items the group of key k has yielded
    \* ---- user functions
    raised,     \* TRUE once the user's delimiter / condition / key function has raised
    evals,      \* the items the condition of partition was applied to, in order of evaluation
    \* ---- chunks: zip_longest over chunkSize references to one iterator
    chunkSize,  \* n
    fillvalue,  \* the fill value
    num_active, \* zip_longest: iterators not yet found exhausted
    replaced,   \* zip_longest: positions whose iterator was replaced by repeat(fillvalue)
    values,     \* zip_longest: the tuple being built
    chunksOut,  \* the chunks yielded so far
    zlPc        \* "loop" | "done"

splitVars == <<delimiter, active, buffers, id, outerPc, yielded, segPc, segOut>>
partVars == <<teeBuf, halfPc, halfOut>>
grpVars == <<keyfn, pep479, kbuffers, bufKeys, seen_keys, gOuterPc, finalIdx, pairs, groupPc, groupOut>>
chunkVars == <<chunkSize, fillvalue, num_active, replaced, values, chunksOut, zlPc>>
auxVars == <<raised, evals, chunkVars>>
vars == <<fn, source, pos, cur, consumer, splitVars, partVars, grpVars, auxVars>>

Idle == <<"idle", 0>>
Outer == <<"outer", 0>>
Seg(i) == <<"seg", i>>
Half(h) == <<"half", h>>
GOuter == <<"gouter", 0>>
View(k) == <<"view", k>>
Chunker == <<"chunks", 0>>

Keys == Items

(* None, the default fillvalue of chunks: a value that is no item. *)
NoneValue == 0 - 1

(* ---------------------------------------------------------------------- *)
(* Helpers                                                                *)
(* ---------------------------------------------------------------------- *)

InSeq(x, s) == \E k \in 1..Len(s) : s[k] = x

(* OrderedDict.pop(key): remove the key wherever it is. *)
RECURSIVE Remove(_, _)
Remove(s, x) ==
    IF s = <<>> THEN <<>>
    ELSE IF Head(s) = x THEN Tail(s)
    ELSE <<Head(s)>> \o Remove(Tail(s), x)

(* Mutant of PopFirst: the oldest segment is not retired. *)
PopFirstNoop(a) == a

(* OrderedDict.popitem(last=False), guarded by "if active". *)
PopFirst(a) == IF a # <<>> THEN Tail(a) ELSE a

(* partial(eq, delimiter) *)
IsDelimiter(item) == item = delimiter

(* Mutant of AppendToFirstBuffer: append to the first deque ever created. *)
AppendToVeryFirstBuffer(bufs, item) ==
    [bufs EXCEPT ![1] = Append(@, item)]

(* append_to_first_buffer: append to the deque of the first key of active. *)
AppendToFirstBuffer(bufs, item) ==
    [bufs EXCEPT ![Head(active)] = Append(@, item)]

SegFinished(i) == segPc[i] \in {"done", "error"}

(* ---------------------------------------------------------------------- *)
(* Initial state                                                          *)
(* ---------------------------------------------------------------------- *)

Init ==
    /\ fn = "none"
    /\ source \in Sources
    /\ pos = 0
    /\ cur = Idle
    /\ consumer = "any"
    /\ delimiter = 0
    /\ active = <<>>
    /\ buffers = <<>>
    /\ id = 0
    /\ outerPc = "loop"
    /\ yielded = <<>>
    /\ segPc = <<>>
    /\ segOut = <<>>
    /\ teeBuf = <<<<>>, <<>>>>
    /\ halfPc = <<"loop", "loop">>
    /\ halfOut = <<<<>>, <<>>>>
    /\ keyfn = "identity"
    /\ pep479 = TRUE
    /\ kbuffers = [k \in Keys |-> <<>>]
    /\ bufKeys = <<>>
    /\ seen_keys = {}
    /\ gOuterPc = "loop"
    /\ finalIdx = 0
    /\ pairs = <<>>
    /\ groupPc = [k \in Keys |-> "none"]
    /\ groupOut = [k \in Keys |-> <<>>]
    /\ raised = FALSE
    /\ evals = <<>>
    /\ chunkSize = 1
    /\ fillvalue = NoneValue
    /\ num_active = 0
    /\ replaced = {}
    /\ values = <<>>
    /\ chunksOut = <<>>
    /\ zlPc = "loop"

(* ---------------------------------------------------------------------- *)
(* split                                                                  *)
(* ---------------------------------------------------------------------- *)

(* split(delimiter, sequence): creates the generator; nothing runs yet. *)
CallSplit ==
    /\ fn = "none"
    /\ fn' = "split"
    /\ \E d \in Items : delimiter' = d
    /\ \E c \in {"immediate", "any"} : consumer' = c
    /\ active' = <<>>
    /\ id' = 0
    /\ outerPc' = "loop"
    /\ UNCHANGED <<source, pos, cur, buffers, yielded, segPc, segOut, partVars, grpVars>>
    /\ UNCHANGED auxVars

(* The consumer calls next() on the outer sequence. *)
PullOuter ==
    /\ fn = "split"
    /\ cur = Idle
    /\ outerPc \notin {"done", "error"}
    /\ consumer = "immediate" => \A k \in 1..Len(yielded) : SegFinished(yielded[k])
    /\ cur' = Outer
    /\ UNCHANGED <<fn, source, pos, consumer, splitVars, partVars, grpVars>>
    /\ UNCHANGED auxVars

(* The consumer calls next() on a segment it was given. *)
PullSeg(i) ==
    /\ fn = "split"
    /\ cur = Idle
    /\ InSeq(i, yielded)
    /\ ~SegFinished(i)
    /\ cur' = Seg(i)
    /\ UNCHANGED <<fn, source, pos, consumer, splitVars, partVars, grpVars>>
    /\ UNCHANGED auxVars

(* Create a segment with the given id and first buffer, register it and yield it. *)
NewSegment(newActive, newId, buf) ==
    /\ active' = Append(newActive, newId)
    /\ buffers' = Append(buffers, buf)
    /\ segPc' = Append(segPc, "created")
    /\ segOut' = Append(segOut, <<>>)
    /\ yielded' = Append(yielded, newId)
    /\ cur' = Idle

(* Mutant of OuterExhausted: the source's end always ends the outer sequence. *)
OuterExhaustedNoEmptySegment ==
    /\ cur = Outer
    /\ outerPc = "loop"
    /\ pos = Len(source)
    /\ outerPc' = "done"
    /\ cur' = Idle
    /\ UNCHANGED <<fn, source, pos, consumer, delimiter, active, buffers, id, yielded, segPc, segOut, partVars, grpVars>>
    /\ UNCHANGED auxVars

(* Mutant of OuterExhausted: the return after the StopIteration handler is missing, *)
(* so the loop asks the exhausted source again, for ever.                          *)
OuterExhaustedSpins ==
    /\ cur = Outer
    /\ outerPc = "loop"
    /\ pos = Len(source)
    /\ IF id = 0
       THEN /\ NewSegment(active, 1, <<>>)
            /\ outerPc' = "final"
       ELSE UNCHANGED <<active, buffers, segPc, segOut, yielded, outerPc, cur>>
    /\ UNCHANGED <<fn, source, pos, consumer, delimiter, id, partVars, grpVars>>
    /\ UNCHANGED auxVars

(* Outer loop, StopIteration branch: one empty segment if no id was ever given. *)
OuterExhausted ==
    /\ cur = Outer
    /\ outerPc = "loop"
    /\ pos = Len(source)
    /\ IF id = 0
       THEN /\ NewSegment(active, 1, <<>>)
            /\ outerPc' = "final"
       ELSE /\ outerPc' = "done"
            /\ cur' = Idle
            /\ UNCHANGED <<active, buffers, segPc, segOut, yielded>>
    /\ UNCHANGED <<fn, source, pos, consumer, delimiter, id, partVars, grpVars>>
    /\ UNCHANGED auxVars

(* Outer generator resumed after yielding the empty-source segment: return. *)
OuterReturn ==
    /\ cur = Outer
    /\ outerPc = "final"
    /\ outerPc' = "done"
    /\ cur' = Idle
    /\ UNCHANGED <<fn, source, pos, consumer, delimiter, active, buffers, id, yielded, segPc, segOut, partVars, grpVars>>
    /\ UNCHANGED auxVars

(* Outer loop, delimiter item: retire the oldest segment, open and yield a new one. *)
OuterDelimiter ==
    /\ cur = Outer
    /\ outerPc = "loop"
    /\ pos < Len(source)
    /\ IsDelimiter(source[pos + 1])
    /\ pos' = pos + 1
    /\ id' = id + 1
    /\ NewSegment(PopFirst(active), id + 1, <<>>)
    /\ UNCHANGED <<fn, source, consumer, delimiter, outerPc, partVars, grpVars>>
    /\ UNCHANGED auxVars

(* Outer loop, ordinary item while a segment is open: buffer it, keep looping. *)
OuterAppend ==
    /\ cur = Outer
    /\ outerPc = "loop"
    /\ pos < Len(source)
    /\ ~IsDelimiter(source[pos + 1])
    /\ active # <<>>
    /\ pos' = pos + 1
    /\ buffers' = AppendToFirstBuffer(buffers, source[pos + 1])
    /\ UNCHANGED <<fn, source, cur, consumer, delimiter, active, id, outerPc, yielded, segPc, segOut, partVars, grpVars>>
    /\ UNCHANGED auxVars

(* Outer loop, ordinary item while no segment is open: open and yield one holding it. *)
OuterNewSegment ==
    /\ cur = Outer
    /\ outerPc = "loop"
    /\ pos < Len(source)
    /\ ~IsDelimiter(source[pos + 1])
    /\ active = <<>>
    /\ pos' = pos + 1
    /\ id' = id + 1
    /\ NewSegment(active, id + 1, <<source[pos + 1]>>)
    /\ UNCHANGED <<fn, source, consumer, delimiter, outerPc, partVars, grpVars>>
    /\ UNCHANGED auxVars

(* subgen, first resumption: buffered = active[id]. *)
SubgenStart(i) ==
    /\ cur = Seg(i)
    /\ segPc[i] = "created"
    /\ InSeq(i, active)
    /\ segPc' = [segPc EXCEPT ![i] = "loop"]
    /\ UNCHANGED <<fn, source, pos, cur, consumer, delimiter, active, buffers, id, outerPc, yielded, segOut, partVars, grpVars>>
    /\ UNCHANGED auxVars

(* subgen, first resumption after the segment was retired: active[id] raises KeyError. *)
SubgenKeyError(i) ==
    /\ cur = Seg(i)
    /\ segPc[i] = "created"
    /\ ~InSeq(i, active)
    /\ segPc' = [segPc EXCEPT ![i] = "error"]
    /\ cur' = Idle
    /\ UNCHANGED <<fn, source, pos, consumer, delimiter, active, buffers, id, outerPc, yielded, segOut, partVars, grpVars>>
    /\ UNCHANGED auxVars

(* subgen: yield buffered.popleft() *)
SubgenYieldBuffered(i) ==
    /\ cur = Seg(i)
    /\ segPc[i] = "loop"
    /\ buffers[i] # <<>>
    /\ segOut' = [segOut EXCEPT ![i] = Append(@, Head(buffers[i]))]
    /\ buffers' = [buffers EXCEPT ![i] = Tail(@)]
    /\ cur' = Idle
    /\ UNCHANGED <<fn, source, pos, consumer, delimiter, active, id, outerPc, yielded, segPc, partVars, grpVars>>
    /\ UNCHANGED auxVars

(* subgen: buffer empty and the segment retired: return. *)
SubgenRetired(i) ==
    /\ cur = Seg(i)
    /\ segPc[i] = "loop"
    /\ buffers[i] = <<>>
    /\ ~InSeq(i, active)
    /\ segPc' = [segPc EXCEPT ![i] = "done"]
    /\ cur' = Idle
    /\ UNCHANGED <<fn, source, pos, consumer, delimiter, active, buffers, id, outerPc, yielded, segOut, partVars, grpVars>>
    /\ UNCHANGED auxVars

(* subgen: source exhausted: active.pop(id); return. *)
SubgenExhausted(i) ==
    /\ cur = Seg(i)
    /\ segPc[i] = "loop"
    /\ buffers[i] = <<>>
    /\ InSeq(i, active)
    /\ pos = Len(source)
    /\ active' = Remove(active, i)
    /\ segPc' = [segPc EXCEPT ![i] = "done"]
    /\ cur' = Idle
    /\ UNCHANGED <<fn, source, pos, consumer, delimiter, buffers, id, outerPc, yielded, segOut, partVars, grpVars>>
    /\ UNCHANGED auxVars

(* subgen: pulled a delimiter: retire the oldest segment, keep looping. *)
SubgenDelimiter(i) ==
    /\ cur = Seg(i)
    /\ segPc[i] = "loop"
    /\ buffers[i] = <<>>
    /\ InSeq(i, active)
    /\ pos < Len(source)
    /\ IsDelimiter(source[pos + 1])
    /\ pos' = pos + 1
    /\ active' = PopFirst(active)
    /\ UNCHANGED <<fn, source, cur, consumer, delimiter, buffers, id, outerPc, yielded, segPc, segOut, partVars, grpVars>>
    /\ UNCHANGED auxVars

(* Mutant of SubgenItem: the pulled item is routed without the delimiter test. *)
SubgenItemUnchecked(i) ==
    /\ cur = Seg(i)
    /\ segPc[i] = "loop"
    /\ buffers[i] = <<>>
    /\ InSeq(i, active)
    /\ pos < Len(source)
    /\ pos' = pos + 1
    /\ buffers' = AppendToFirstBuffer(buffers, source[pos + 1])
    /\ UNCHANGED <<fn, source, cur, consumer, delimiter, active, id, outerPc, yielded, segPc, segOut, partVars, grpVars>>
    /\ UNCHANGED auxVars

(* subgen: pulled an ordinary item: buffer it in the oldest segment (or yield it *)
(* directly if no segment is open), keep looping.                               *)
SubgenItem(i) ==
    /\ cur = Seg(i)
    /\ segPc[i] = "loop"
    /\ buffers[i] = <<>>
    /\ InSeq(i, active)
    /\ pos < Len(source)
    /\ ~IsDelimiter(source[pos + 1])
    /\ pos' = pos + 1
    /\ IF active # <<>>
       THEN /\ buffers' = AppendToFirstBuffer(buffers, source[pos + 1])
            /\ UNCHANGED <<cur, segOut>>
       ELSE /\ segOut' = [segOut EXCEPT ![i] = Append(@, source[pos + 1])]
            /\ cur' = Idle
            /\ UNCHANGED buffers
    /\ UNCHANGED <<fn, source, consumer, delimiter, active, id, outerPc, yielded, segPc, partVars, grpVars>>
    /\ UNCHANGED auxVars

SegIds == 1..(MaxLen + 1)

SplitNext ==
    \/ CallSplit
    \/ PullOuter
    \/ \E i \in SegIds : PullSeg(i)
    \/ OuterExhausted
    \/ OuterReturn
    \/ OuterDelimiter
    \/ OuterAppend
    \/ OuterNewSegment
    \/ \E i \in SegIds : SubgenStart(i)
    \/ \E i \in SegIds : SubgenKeyError(i)
    \/ \E i \in SegIds : SubgenYieldBuffered(i)
    \/ \E i \in SegIds : SubgenRetired(i)
    \/ \E i \in SegIds : SubgenExhausted(i)
    \/ \E i \in SegIds : SubgenDelimiter(i)
    \/ \E i \in SegIds : SubgenItem(i)

SpecSplit == Init /\ [][SplitNext]_vars

(* split with a consumer that keeps pulling and an interpreter that keeps running *)
(* the generator it resumed: some enabled step is eventually taken.               *)
LiveInit == Init /\ Len(source) <= MaxLiveLen

LiveSplit == LiveInit /\ [][SplitNext]_vars /\ WF_vars(SplitNext)

(* ---------------------------------------------------------------------- *)
(* partition                                                              *)
(* ---------------------------------------------------------------------- *)

(* The condition of the doctest and of test_partition: odd numbers. *)
Condition(i) == i % 2 # 0

(* Whether half h keeps a pair: "if pred_value" for true_seq, "if not pred_value" for false_seq. *)
Keeps(h, pred_value) == IF h = 1 THEN pred_value ELSE ~pred_value

Other(h) == 3 - h

(* Mutant of TeeEnqueue: the pair is not kept for the other branch. *)
TeeEnqueueDropped(queue, pair) == queue

(* tee: a pair pulled by one branch is queued for the other branch. *)
TeeEnqueue(queue, pair) == Append(queue, pair)

(* Mutant of CallPartition: the pairs are built as a list, which consumes the source in the call. *)
CallPartitionEager ==
    /\ fn = "none"
    /\ fn' = "partition"
    /\ pos' = Len(source)
    /\ LET all == [k \in 1..Len(source) |-> <<Condition(source[k]), source[k]>>]
       IN teeBuf' = <<all, all>>
    /\ halfPc' = <<"loop", "loop">>
    /\ halfOut' = <<<<>>, <<>>>>
    /\ UNCHANGED <<source, cur, consumer, splitVars, grpVars>>
    /\ UNCHANGED auxVars

(* partition(condition, sequence): tee over the generator of (condition(i), i); nothing pulled. *)
CallPartition ==
    /\ fn = "none"
    /\ fn' = "partition"
    /\ teeBuf' = <<<<>>, <<>>>>
    /\ halfPc' = <<"loop", "loop">>
    /\ halfOut' = <<<<>>, <<>>>>
    /\ UNCHANGED <<source, pos, cur, consumer, splitVars, grpVars>>
    /\ UNCHANGED auxVars

(* The consumer calls next() on one of the two halves. *)
PullHalf(h) ==
    /\ fn = "partition"
    /\ cur = Idle
    /\ halfPc[h] = "loop"
    /\ cur' = Half(h)
    /\ UNCHANGED <<fn, source, pos, consumer, splitVars, partVars, grpVars>>
    /\ UNCHANGED auxVars

(* A half takes (pred_value, i) and yields i if it keeps it, else keeps looping. *)
HalfTake(h, pair) ==
    IF Keeps(h, pair[1])
    THEN /\ halfOut' = [halfOut EXCEPT ![h] = Append(@, pair[2])]
         /\ cur' = Idle
    ELSE UNCHANGED <<halfOut, cur>>

(* Mutant of HalfFromBuffer: the half filters with the condition itself instead *)
(* of the cached pred_value, so a queued item is evaluated a second time.       *)
HalfFromBufferReevaluates(h) ==
    /\ cur = Half(h)
    /\ teeBuf[h] # <<>>
    /\ teeBuf' = [teeBuf EXCEPT ![h] = Tail(@)]
    /\ HalfTake(h, <<Condition(Head(teeBuf[h])[2]), Head(teeBuf[h])[2]>>)
    /\ evals' = Append(evals, Head(teeBuf[h])[2])
    /\ UNCHANGED <<fn, source, pos, consumer, halfPc, splitVars, grpVars>>
    /\ UNCHANGED <<raised, chunkVars>>

(* next() of a tee branch whose queue holds a pair the other branch pulled. *)
HalfFromBuffer(h) ==
    /\ cur = Half(h)
    /\ teeBuf[h] # <<>>
    /\ teeBuf' = [teeBuf EXCEPT ![h] = Tail(@)]
    /\ HalfTake(h, Head(teeBuf[h]))
    /\ UNCHANGED <<fn, source, pos, consumer, halfPc, splitVars, grpVars>>
    /\ UNCHANGED auxVars

(* next() of a tee branch with an empty queue: pull the source, evaluate the  *)
(* condition once, and queue the pair for the other branch.                   *)
HalfFromSource(h) ==
    /\ cur = Half(h)
    /\ teeBuf[h] = <<>>
    /\ ~raised
    /\ pos < Len(source)
    /\ pos' = pos + 1
    /\ LET pair == <<Condition(source[pos + 1]), source[pos + 1]>>
       IN /\ teeBuf' = [teeBuf EXCEPT ![Other(h)] = TeeEnqueue(@, pair)]
          /\ HalfTake(h, pair)
    /\ UNCHANGED <<fn, source, consumer, halfPc, splitVars, grpVars>>
    /\ evals' = Append(evals, source[pos + 1])
    /\ UNCHANGED <<raised, chunkVars>>

(* next() of a tee branch with an empty queue and the source exhausted: the half ends. *)
HalfExhausted(h) ==
    /\ cur = Half(h)
    /\ teeBuf[h] = <<>>
    /\ raised \/ pos = Len(source)
    /\ halfPc' = [halfPc EXCEPT ![h] = "done"]
    /\ cur' = Idle
    /\ UNCHANGED <<fn, source, pos, consumer, teeBuf, halfOut, splitVars, grpVars>>
    /\ UNCHANGED auxVars

PartitionNext ==
    \/ CallPartition
    \/ \E h \in 1..2 : PullHalf(h)
    \/ \E h \in 1..2 : HalfFromBuffer(h)
    \/ \E h \in 1..2 : HalfFromSource(h)
    \/ \E h \in 1..2 : HalfExhausted(h)

SpecPartition == Init /\ [][PartitionNext]_vars

(* ---------------------------------------------------------------------- *)
(* groupby                                                                *)
(* ---------------------------------------------------------------------- *)

(* key(item): the default identity, or a key that several items share. *)
Key(item) == IF keyfn = "identity" THEN item ELSE item % 2

(* Mutant of BufferAppend: appendleft instead of append. *)
BufferAppendLeft(k, value) ==
    /\ kbuffers' = [kbuffers EXCEPT ![k] = <<value>> \o @]
    /\ bufKeys' = IF InSeq(k, bufKeys) THEN bufKeys ELSE Append(bufKeys, k)

(* buffers[k].append(value) on the defaultdict: a missing key is inserted last. *)
BufferAppend(k, value) ==
    /\ kbuffers' = [kbuffers EXCEPT ![k] = Append(@, value)]
    /\ bufKeys' = IF InSeq(k, bufKeys) THEN bufKeys ELSE Append(bufKeys, k)

(* groupby(sequence, key): creates the generator; nothing runs yet. *)
CallGroupby ==
    /\ fn = "none"
    /\ fn' = "groupby"
    /\ \E f \in {"identity", "mod2"} : keyfn' = f
    /\ \E b \in BOOLEAN : pep479' = b
    /\ kbuffers' = [k \in Keys |-> <<>>]
    /\ bufKeys' = <<>>
    /\ seen_keys' = {}
    /\ gOuterPc' = "loop"
    /\ UNCHANGED <<source, pos, cur, consumer, finalIdx, pairs, groupPc, groupOut, splitVars, partVars>>
    /\ UNCHANGED auxVars

(* The consumer calls next() on the outer sequence. *)
GPullOuter ==
    /\ fn = "groupby"
    /\ cur = Idle
    /\ gOuterPc \notin {"done", "error"}
    /\ cur' = GOuter
    /\ UNCHANGED <<fn, source, pos, consumer, splitVars, partVars, grpVars>>
    /\ UNCHANGED auxVars

(* The consumer calls next() on a group view it was given. *)
GPullView(k) ==
    /\ fn = "groupby"
    /\ cur = Idle
    /\ groupPc[k] = "loop"
    /\ cur' = View(k)
    /\ UNCHANGED <<fn, source, pos, consumer, splitVars, partVars, grpVars>>
    /\ UNCHANGED auxVars

(* The consumer iterates a deque that the final pass yielded as a group. *)
ReadDeque(k) ==
    /\ fn = "groupby"
    /\ cur = Idle
    /\ InSeq(<<k, "deque">>, pairs)
    /\ groupPc[k] = "none"
    /\ groupOut' = [groupOut EXCEPT ![k] = kbuffers[k]]
    /\ groupPc' = [groupPc EXCEPT ![k] = "done"]
    /\ UNCHANGED <<fn, source, pos, cur, consumer, keyfn, pep479, kbuffers, bufKeys, seen_keys,
                   gOuterPc, finalIdx, pairs, splitVars, partVars>>
    /\ UNCHANGED auxVars

(* The consumer iterates such a deque a second time: iteration removes nothing *)
(* from a deque, so it gives the same items again.                            *)
RereadDeque(k) ==
    /\ fn = "groupby"
    /\ cur = Idle
    /\ InSeq(<<k, "deque">>, pairs)
    /\ groupPc[k] = "done"
    /\ groupOut' = [groupOut EXCEPT ![k] = @ \o kbuffers[k]]
    /\ groupPc' = [groupPc EXCEPT ![k] = "reread"]
    /\ UNCHANGED <<fn, source, pos, cur, consumer, keyfn, pep479, kbuffers, bufKeys, seen_keys,
                   gOuterPc, finalIdx, pairs, splitVars, partVars>>
    /\ UNCHANGED auxVars

(* Outer loop: item of a key already yielded: buffer it, keep looping. *)
GOuterSeen ==
    /\ cur = GOuter
    /\ gOuterPc = "loop"
    /\ ~raised
    /\ pos < Len(source)
    /\ Key(source[pos + 1]) \in seen_keys
    /\ pos' = pos + 1
    /\ BufferAppend(Key(source[pos + 1]), source[pos + 1])
    /\ UNCHANGED <<fn, source, cur, consumer, keyfn, pep479, seen_keys, gOuterPc, finalIdx, pairs,
                   groupPc, groupOut, splitVars, partVars>>
    /\ UNCHANGED auxVars

(* Outer loop: item of a key not yet yielded: buffer it, mark the key, yield (k, subseq). *)
GOuterNewKey ==
    /\ cur = GOuter
    /\ gOuterPc = "loop"
    /\ ~raised
    /\ pos < Len(source)
    /\ Key(source[pos + 1]) \notin seen_keys
    /\ pos' = pos + 1
    /\ LET k == Key(source[pos + 1])
       IN /\ BufferAppend(k, source[pos + 1])
          /\ seen_keys' = seen_keys \cup {k}
          /\ pairs' = Append(pairs, <<k, "view">>)
          /\ groupPc' = [groupPc EXCEPT ![k] = "loop"]
    /\ cur' = Idle
    /\ UNCHANGED <<fn, source, consumer, keyfn, pep479, gOuterPc, finalIdx, groupOut, splitVars, partVars>>
    /\ UNCHANGED auxVars

(* Outer loop: StopIteration: start the final pass over the buffers. *)
GOuterExhausted ==
    /\ cur = GOuter
    /\ gOuterPc = "loop"
    /\ raised \/ pos = Len(source)
    /\ gOuterPc' = "final"
    /\ finalIdx' = 1
    /\ UNCHANGED <<fn, source, pos, cur, consumer, keyfn, pep479, kbuffers, bufKeys, seen_keys, pairs,
                   groupPc, groupOut, splitVars, partVars>>
    /\ UNCHANGED auxVars

(* Mutant of FinalYields: the final pass forgets the seen keys. *)
FinalYieldsAnyNonEmpty(bk) == kbuffers[bk] # <<>>

(* Final pass: "if group and bk not in seen_keys". *)
FinalYields(bk) == kbuffers[bk] # <<>> /\ bk \notin seen_keys

(* Final pass: a non-empty buffer of a key never yielded: yield (bk, group), the deque itself. *)
GOuterFinalYield ==
    /\ cur = GOuter
    /\ gOuterPc = "final"
    /\ finalIdx <= Len(bufKeys)
    /\ FinalYields(bufKeys[finalIdx])
    /\ pairs' = Append(pairs, <<bufKeys[finalIdx], "deque">>)
    /\ finalIdx' = finalIdx + 1
    /\ cur' = Idle
    /\ UNCHANGED <<fn, source, pos, consumer, keyfn, pep479, kbuffers, bufKeys, seen_keys, gOuterPc,
                   groupPc, groupOut, splitVars, partVars>>
    /\ UNCHANGED auxVars

(* Final pass: any other buffer is skipped. *)
GOuterFinalSkip ==
    /\ cur = GOuter
    /\ gOuterPc = "final"
    /\ finalIdx <= Len(bufKeys)
    /\ ~FinalYields(bufKeys[finalIdx])
    /\ finalIdx' = finalIdx + 1
    /\ UNCHANGED <<fn, source, pos, cur, consumer, keyfn, pep479, kbuffers, bufKeys, seen_keys, gOuterPc,
                   pairs, groupPc, groupOut, splitVars, partVars>>
    /\ UNCHANGED auxVars

(* Final pass over: return. *)
GOuterReturn ==
    /\ cur = GOuter
    /\ gOuterPc = "final"
    /\ finalIdx > Len(bufKeys)
    /\ gOuterPc' = "done"
    /\ cur' = Idle
    /\ UNCHANGED <<fn, source, pos, consumer, keyfn, pep479, kbuffers, bufKeys, seen_keys, finalIdx,
                   pairs, groupPc, groupOut, splitVars, partVars>>
    /\ UNCHANGED auxVars

(* subseq: yield buffered.popleft() *)
ViewYield(k) ==
    /\ cur = View(k)
    /\ kbuffers[k] # <<>>
    /\ groupOut' = [groupOut EXCEPT ![k] = Append(@, Head(kbuffers[k]))]
    /\ kbuffers' = [kbuffers EXCEPT ![k] = Tail(@)]
    /\ cur' = Idle
    /\ UNCHANGED <<fn, source, pos, consumer, keyfn, pep479, bufKeys, seen_keys, gOuterPc, finalIdx,
                   pairs, groupPc, splitVars, partVars>>
    /\ UNCHANGED auxVars

(* subseq: buffer empty: pull the next item and route it to the buffer of its key. *)
ViewRoute(k) ==
    /\ cur = View(k)
    /\ kbuffers[k] = <<>>
    /\ ~raised
    /\ pos < Len(source)
    /\ pos' = pos + 1
    /\ BufferAppend(Key(source[pos + 1]), source[pos + 1])
    /\ UNCHANGED <<fn, source, cur, consumer, keyfn, pep479, seen_keys, gOuterPc, finalIdx, pairs,
                   groupPc, groupOut, splitVars, partVars>>
    /\ UNCHANGED auxVars

(* subseq: buffer empty and next(kvs) raises StopIteration inside the generator: *)
(* the view ends, with RuntimeError where the interpreter applies PEP 479.       *)
ViewExhausted(k) ==
    /\ cur = View(k)
    /\ kbuffers[k] = <<>>
    /\ raised \/ pos = Len(source)
    /\ groupPc' = [groupPc EXCEPT ![k] = IF pep479 THEN "error" ELSE "done"]
    /\ cur' = Idle
    /\ UNCHANGED <<fn, source, pos, consumer, keyfn, pep479, kbuffers, bufKeys, seen_keys, gOuterPc,
                   finalIdx, pairs, groupOut, splitVars, partVars>>
    /\ UNCHANGED auxVars

GroupbyNext ==
    \/ CallGroupby
    \/ GPullOuter
    \/ \E k \in Keys : GPullView(k)
    \/ \E k \in Keys : ReadDeque(k)
    \/ \E k \in Keys : RereadDeque(k)
    \/ GOuterSeen
    \/ GOuterNewKey
    \/ GOuterExhausted
    \/ GOuterFinalYield
    \/ GOuterFinalSkip
    \/ GOuterReturn
    \/ \E k \in Keys : ViewYield(k)
    \/ \E k \in Keys : ViewRoute(k)
    \/ \E k \in Keys : ViewExhausted(k)

SpecGroupby == Init /\ [][GroupbyNext]_vars

(* ---------------------------------------------------------------------- *)
(* chunks                                                                 *)
(* ---------------------------------------------------------------------- *)

(* chunks(sequence, n, fillvalue): n >= 1 is asserted; zip_longest over n *)
(* references to one iterator of the sequence; nothing is pulled yet.     *)
CallChunks ==
    /\ fn = "none"
    /\ fn' = "chunks"
    /\ \E n \in 1..MaxChunk :
          /\ chunkSize' = n
          /\ num_active' = n
    /\ \E f \in {NoneValue, 0} : fillvalue' = f
    /\ replaced' = {}
    /\ values' = <<>>
    /\ chunksOut' = <<>>
    /\ zlPc' = "loop"
    /\ UNCHANGED <<source, pos, cur, consumer, raised, evals, splitVars, partVars, grpVars>>

(* The consumer asks for the next chunk. *)
PullChunk ==
    /\ fn = "chunks"
    /\ cur = Idle
    /\ zlPc = "loop"
    /\ cur' = Chunker
    /\ UNCHANGED <<fn, source, pos, consumer, splitVars, partVars, grpVars, auxVars>>

(* zip_longest: the iterator of the next position gives a value: the next *)
(* source item, or fillvalue if the position was replaced by repeat.      *)
ZlTake ==
    /\ cur = Chunker
    /\ Len(values) < chunkSize
    /\ LET i == Len(values) + 1
       IN IF i \in replaced
          THEN /\ values' = Append(values, fillvalue)
               /\ UNCHANGED pos
          ELSE /\ pos < Len(source)
               /\ values' = Append(values, source[pos + 1])
               /\ pos' = pos + 1
    /\ UNCHANGED <<fn, source, cur, consumer, raised, evals, chunkSize, fillvalue, num_active, replaced,
                   chunksOut, zlPc, splitVars, partVars, grpVars>>

(* Mutant of ZlExhausted: zip instead of zip_longest: the first exhausted position ends it. *)
ZlExhaustedStops ==
    /\ cur = Chunker
    /\ Len(values) < chunkSize
    /\ (Len(values) + 1) \notin replaced
    /\ pos = Len(source)
    /\ zlPc' = "done"
    /\ values' = <<>>
    /\ cur' = Idle
    /\ UNCHANGED <<fn, source, pos, consumer, raised, evals, chunkSize, fillvalue, num_active, replaced,
                   chunksOut, splitVars, partVars, grpVars>>

(* zip_longest: the iterator of the next position is exhausted: one active *)
(* iterator fewer; with none left the sequence of chunks ends, else the    *)
(* position is replaced by repeat(fillvalue) and gives fillvalue.          *)
ZlExhausted ==
    /\ cur = Chunker
    /\ Len(values) < chunkSize
    /\ (Len(values) + 1) \notin replaced
    /\ pos = Len(source)
    /\ num_active' = num_active - 1
    /\ IF num_active = 1
       THEN /\ zlPc' = "done"
            /\ values' = <<>>
            /\ cur' = Idle
            /\ UNCHANGED replaced
       ELSE /\ replaced' = replaced \cup {Len(values) + 1}
            /\ values' = Append(values, fillvalue)
            /\ UNCHANGED <<zlPc, cur>>
    /\ UNCHANGED <<fn, source, pos, consumer, raised, evals, chunkSize, fillvalue, chunksOut,
                   splitVars, partVars, grpVars>>

(* zip_longest: the tuple is complete: yield it. *)
ZlYield ==
    /\ cur = Chunker
    /\ Len(values) = chunkSize
    /\ chunksOut' = Append(chunksOut, values)
    /\ values' = <<>>
    /\ cur' = Idle
    /\ UNCHANGED <<fn, source, pos, consumer, raised, evals, chunkSize, fillvalue, num_active, replaced,
                   zlPc, splitVars, partVars, grpVars>>

ChunksNext ==
    \/ CallChunks
    \/ PullChunk
    \/ ZlTake
    \/ ZlExhausted
    \/ ZlYield

SpecChunks == Init /\ [][ChunksNext]_vars

(* ---------------------------------------------------------------------- *)
(* The library: any one of the three calls, then its steps                *)
(* ---------------------------------------------------------------------- *)

Next == SplitNext \/ PartitionNext \/ GroupbyNext \/ ChunksNext

Spec == Init /\ [][Next]_vars

(* ---------------------------------------------------------------------- *)
(* A user function that raises                                            *)
(* ---------------------------------------------------------------------- *)

(* split, outer loop: next(sequence) gave the item and delimiter(item)     *)
(* raises: the exception leaves the generator, which is finished; the item *)
(* was taken from the iterator and is in no buffer.                        *)
OuterRaise ==
    /\ cur = Outer
    /\ outerPc = "loop"
    /\ pos < Len(source)
    /\ pos' = pos + 1
    /\ outerPc' = "error"
    /\ raised' = TRUE
    /\ cur' = Idle
    /\ UNCHANGED <<fn, source, consumer, delimiter, active, buffers, id, yielded, segPc, segOut,
                   evals, chunkVars, partVars, grpVars>>

(* subgen: next(sequence) gave the item and delimiter(item) raises: the    *)
(* segment's generator is finished, its id stays in active.                *)
SubgenRaise(i) ==
    /\ cur = Seg(i)
    /\ segPc[i] = "loop"
    /\ buffers[i] = <<>>
    /\ InSeq(i, active)
    /\ pos < Len(source)
    /\ pos' = pos + 1
    /\ segPc' = [segPc EXCEPT ![i] = "error"]
    /\ raised' = TRUE
    /\ cur' = Idle
    /\ UNCHANGED <<fn, source, consumer, delimiter, active, buffers, id, outerPc, yielded, segOut,
                   evals, chunkVars, partVars, grpVars>>

(* partition: a branch of the tee pulls the pair generator, which took the *)
(* item and raises in condition(i): the generator is finished, no pair is  *)
(* queued, the pulling half is finished by the exception.                  *)
HalfRaise(h) ==
    /\ cur = Half(h)
    /\ teeBuf[h] = <<>>
    /\ ~raised
    /\ pos < Len(source)
    /\ pos' = pos + 1
    /\ evals' = Append(evals, source[pos + 1])
    /\ halfPc' = [halfPc EXCEPT ![h] = "error"]
    /\ raised' = TRUE
    /\ cur' = Idle
    /\ UNCHANGED <<fn, source, consumer, teeBuf, halfOut, chunkVars, splitVars, grpVars>>

(* groupby, outer loop: next(kvs) took the item and raises in key(item):   *)
(* kvs and the outer generator are finished.                               *)
GOuterRaise ==
    /\ cur = GOuter
    /\ gOuterPc = "loop"
    /\ ~raised
    /\ pos < Len(source)
    /\ pos' = pos + 1
    /\ gOuterPc' = "error"
    /\ raised' = TRUE
    /\ cur' = Idle
    /\ UNCHANGED <<fn, source, consumer, keyfn, pep479, kbuffers, bufKeys, seen_keys, finalIdx, pairs,
                   groupPc, groupOut, evals, chunkVars, splitVars, partVars>>

(* subseq: buffer empty, next(kvs) took the item and raises in key(item):  *)
(* kvs and the view are finished.                                          *)
ViewRaise(k) ==
    /\ cur = View(k)
    /\ kbuffers[k] = <<>>
    /\ ~raised
    /\ pos < Len(source)
    /\ pos' = pos + 1
    /\ groupPc' = [groupPc EXCEPT ![k] = "error"]
    /\ raised' = TRUE
    /\ cur' = Idle
    /\ UNCHANGED <<fn, source, consumer, keyfn, pep479, kbuffers, bufKeys, seen_keys, gOuterPc, finalIdx,
                   pairs, groupOut, evals, chunkVars, splitVars, partVars>>

FaultyNext ==
    \/ SplitNext
    \/ PartitionNext
    \/ GroupbyNext
    \/ OuterRaise
    \/ \E i \in SegIds : SubgenRaise(i)
    \/ \E h \in 1..2 : HalfRaise(h)
    \/ GOuterRaise
    \/ \E k \in Keys : ViewRaise(k)

SpecFaulty == Init /\ [][FaultyNext]_vars

(* ---------------------------------------------------------------------- *)
(* Reference functions and observations                                   *)
(* ---------------------------------------------------------------------- *)

(* Index of the first occurrence of d in s, or 0. *)
RECURSIVE FirstIndex(_, _, _)
FirstIndex(s, d, k) ==
    IF k > Len(s) THEN 0
    ELSE IF s[k] = d THEN k
    ELSE FirstIndex(s, d, k + 1)

(* s.split(d) for a one-character d: the runs between occurrences of d. *)
RECURSIVE StrSplit(_, _)
StrSplit(s, d) ==
    LET k == FirstIndex(s, d, 1)
    IN IF k = 0 THEN <<s>>
       ELSE <<SubSeq(s, 1, k - 1)>> \o StrSplit(SubSeq(s, k + 1, Len(s)), d)

(* What list(map(''.join, split(d, s))) computes: every segment is drained as *)
(* soon as the outer loop yields it.  The outer loop takes one item (kept if  *)
(* it is no delimiter); the segment then pulls up to and including the next   *)
(* delimiter; the outer loop goes on after it.                                *)
RECURSIVE ImmediateRuns(_, _)
ImmediateRuns(s, d) ==
    IF s = <<>> THEN <<>>
    ELSE LET first == IF Head(s) = d THEN <<>> ELSE <<Head(s)>>
             rest == Tail(s)
             k == FirstIndex(rest, d, 1)
         IN IF k = 0 THEN <<first \o rest>>
            ELSE <<first \o SubSeq(rest, 1, k - 1)>> \o ImmediateRuns(SubSeq(rest, k + 1, Len(rest)), d)

ImmediateSplit(s, d) == IF s = <<>> THEN <<<<>>>> ELSE ImmediateRuns(s, d)

(* The segments' contents with one delimiter between consecutive segments. *)
RECURSIVE JoinWith(_, _)
JoinWith(segs, d) ==
    IF segs = <<>> THEN <<>>
    ELSE IF Len(segs) = 1 THEN segs[1]
    ELSE segs[1] \o <<d>> \o JoinWith(Tail(segs), d)

(* What the consumer got from split: the items of each yielded segment, in emission order. *)
Contents == [k \in 1..Len(yielded) |-> segOut[yielded[k]]]

(* split fully consumed: the outer sequence and every segment have ended. *)
SplitDone ==
    /\ fn = "split"
    /\ cur = Idle
    /\ outerPc = "done"
    /\ \A k \in 1..Len(yielded) : SegFinished(yielded[k])

(* partition fully consumed. *)
PartitionDone ==
    /\ fn = "partition"
    /\ cur = Idle
    /\ halfPc = <<"done", "done">>

(* The items of s whose key is k, in order. *)
WithKey(s, k) == SelectSeq(s, LAMBDA x : Key(x) = k)

(* The keys of s in order of first occurrence. *)
RECURSIVE FirstKeys(_, _)
FirstKeys(s, acc) ==
    IF s = <<>> THEN acc
    ELSE FirstKeys(Tail(s), IF InSeq(Key(Head(s)), acc) THEN acc ELSE Append(acc, Key(Head(s))))

PairKeys == [n \in 1..Len(pairs) |-> pairs[n][1]]

GroupFinished(k) == groupPc[k] \in {"done", "error"}

(* The immediate-consumption reference agrees with the generators. *)
ImmediateSplitAgrees ==
    (SplitDone /\ consumer = "immediate") => Contents = ImmediateSplit(source, delimiter)

(* ---------------------------------------------------------------------- *)
(* Claims                                                                 *)
(* ---------------------------------------------------------------------- *)

(* C1: when every segment is drained as soon as it is yielded, the segments *)
(* of split(d, s) are exactly s.split(d).                                   *)
C1_MatchesStrSplit ==
    (SplitDone /\ consumer = "immediate") => Contents = StrSplit(source, delimiter)

(* C2: the number of segments and the items of each segment are the same   *)
(* under every consumption schedule: every complete run yields what the    *)
(* immediate-consumption run of the same source and delimiter yields.      *)
C2_ScheduleIndependent ==
    SplitDone => Contents = ImmediateSplit(source, delimiter)

(* C3: once everything is consumed, the segments joined with one delimiter *)
(* between consecutive segments are the source.                            *)
C3_JoinReconstructs ==
    SplitDone => JoinWith(Contents, delimiter) = source

(* C4: once both halves of partition are consumed, true_seq holds exactly  *)
(* the items satisfying the condition and false_seq the others, each in    *)
(* source order, whatever the interleaving of pulls was.                   *)
C4_PartitionCorrect ==
    PartitionDone =>
        /\ halfOut[1] = SelectSeq(source, LAMBDA x : Condition(x))
        /\ halfOut[2] = SelectSeq(source, LAMBDA x : ~Condition(x))

(* C4 witness: both halves drained, each of at least two items, source items interleaved. *)
C4_Witness ==
    /\ PartitionDone
    /\ Len(halfOut[1]) >= 2
    /\ Len(halfOut[2]) >= 1
    /\ Condition(source[1]) /\ ~Condition(source[2])

(* C5: a group that has been fully consumed yielded exactly the source     *)
(* items of its key, every occurrence once, in source order.               *)
C5_GroupContents ==
    fn = "groupby" =>
        \A n \in 1..Len(pairs) :
            GroupFinished(pairs[n][1]) => groupOut[pairs[n][1]] = WithKey(source, pairs[n][1])

(* C5 witness: a consumed group view holding two different, non-adjacent items of one key. *)
C5_Witness ==
    /\ fn = "groupby"
    /\ \E n \in 1..Len(pairs) :
          /\ pairs[n][2] = "view"
          /\ GroupFinished(pairs[n][1])
          /\ Len(groupOut[pairs[n][1]]) >= 2
          /\ groupOut[pairs[n][1]][1] # groupOut[pairs[n][1]][2]
          /\ Len(source) >= 3
          /\ Key(source[2]) # pairs[n][1]

(* C6: the (key, group) pairs come in the order of each key's first        *)
(* occurrence in the source, under any interleaving of pulls.              *)
C6_FirstOccurrenceOrder ==
    (fn = "groupby" /\ gOuterPc = "done") => PairKeys = FirstKeys(source, <<>>)

(* C7: no key is ever yielded twice, and once the outer sequence has ended *)
(* every key of the source has been yielded exactly once.                  *)
C7_EachKeyOnce ==
    fn = "groupby" =>
        /\ \A m, n \in 1..Len(pairs) : PairKeys[m] = PairKeys[n] => m = n
        /\ gOuterPc = "done" =>
              {PairKeys[n] : n \in 1..Len(pairs)} = {Key(source[j]) : j \in 1..Len(source)}

(* C7 witness: the outer sequence ended after a key recurred and after the *)
(* final pass yielded a key that only a group view had discovered.         *)
C7_Witness ==
    /\ fn = "groupby"
    /\ gOuterPc = "done"
    /\ \E n \in 1..Len(pairs) : pairs[n][2] = "deque"
    /\ \E i, j \in 1..Len(source) : i < j /\ Key(source[i]) = Key(source[j])

(* C8: no delimiter item is ever in a segment buffer or among the items a  *)
(* segment has yielded.                                                    *)
C8_NoDelimiterInSegments ==
    fn = "split" =>
        \A i \in 1..Len(buffers) :
            /\ \A k \in 1..Len(buffers[i]) : buffers[i][k] # delimiter
            /\ \A k \in 1..Len(segOut[i]) : segOut[i][k] # delimiter

(* C8 witness: delimiters were pulled by the outer loop and by a segment,  *)
(* and items are both buffered and yielded.                                *)
C8_Witness ==
    /\ fn = "split"
    /\ pos >= 3
    /\ \E k \in 1..pos : source[k] = delimiter
    /\ \E i \in 1..Len(buffers) : buffers[i] # <<>>
    /\ \E i \in 1..Len(segOut) : segOut[i] # <<>>

(* C9: for an empty source split yields exactly one segment, which yields  *)
(* nothing and ends normally; the outer sequence then ends with no other.  *)
C9_EmptySource ==
    (fn = "split" /\ source = <<>>) =>
        /\ Len(yielded) <= 1
        /\ \A i \in 1..Len(segOut) : segOut[i] = <<>> /\ segPc[i] # "error"
        /\ (outerPc # "loop" /\ cur = Idle) => yielded = <<1>>
        /\ SplitDone => Contents = <<<<>>>>

(* C9 witness: the empty source fully consumed. *)
C9_Witness ==
    /\ source = <<>>
    /\ SplitDone
    /\ segPc = <<"done">>

(* The source position when the consumer holds the first output and has asked *)
(* for nothing else: the first segment of split and the first pair of groupby *)
(* cost one item, the first item of true_seq costs the items up to the first  *)
(* one that satisfies the condition.                                          *)
FirstItemLookahead ==
    /\ (fn = "split" /\ cur = Idle /\ outerPc = "loop" /\ Len(yielded) = 1 /\ segPc[1] = "created")
          => pos = 1
    /\ (fn = "groupby" /\ cur = Idle /\ gOuterPc = "loop" /\ Len(pairs) = 1
            /\ groupPc[pairs[1][1]] = "loop" /\ groupOut[pairs[1][1]] = <<>>)
          => pos = 1
    /\ (fn = "partition" /\ cur = Idle /\ halfPc = <<"loop", "loop">>
            /\ Len(halfOut[1]) = 1 /\ halfOut[2] = <<>>)
          => /\ pos >= 1
             /\ Condition(source[pos])
             /\ \A j \in 1..(pos - 1) : ~Condition(source[j])

(* C10: the call itself pulls nothing, the source advances only while a    *)
(* generator is running in response to a pull of the consumer, one item at *)
(* a time, and the first output costs no more than the items up to it.     *)
C10_Lazy ==
    /\ [](fn = "none" => pos = 0)
    /\ []FirstItemLookahead
    /\ [][(pos' # pos) => (fn # "none" /\ fn' = fn /\ cur # Idle /\ pos' = pos + 1)]_vars

(* C10 witness: the first segment was requested and one item of a longer source was pulled. *)
C10_Witness ==
    /\ fn = "split"
    /\ cur = Idle
    /\ Len(yielded) = 1
    /\ pos = 1
    /\ Len(source) > 1

(* Number of delimiter items in s. *)
CountDelims(s) == Len(SelectSeq(s, LAMBDA x : x = delimiter))

(* C12: a derived sequence pulled with an empty buffer and the source      *)
(* exhausted ends normally: no group view, segment or half ends in error   *)
(* because its own pull found the source exhausted.                        *)
C12_ExhaustionIsNormalEnd ==
    /\ fn = "groupby" => \A k \in Keys : groupPc[k] # "error"
    /\ fn = "partition" => \A h \in 1..2 : halfPc[h] # "error"

(* C15: every delimiter pulled, by the outer loop or by a segment, opens a *)
(* segment that is yielded: when everything is consumed there are at least *)
(* as many segments as delimiters in the source.                           *)
C15_DelimiterOpensSegment ==
    SplitDone => Len(yielded) >= CountDelims(source)

(* C16: a segment that has ended, retired or not, started before its       *)
(* retirement or not, ended without error and after yielding everything    *)
(* that was in its buffer.                                                 *)
C16_RetiredSegmentDrains ==
    fn = "split" =>
        \A i \in 1..Len(segPc) : SegFinished(i) => (segPc[i] = "done" /\ buffers[i] = <<>>)

(* C17: a non-delimiter item pulled while the active set is non-empty is   *)
(* appended to the buffer of the oldest (lowest) id of the active set and  *)
(* to no other buffer, whoever pulled it; the active set is unchanged.     *)
C17_AppendToOldest ==
    [][(fn = "split" /\ pos' = pos + 1 /\ source[pos + 1] # delimiter /\ active # <<>>)
          => /\ buffers' = [buffers EXCEPT ![Head(active)] = Append(@, source[pos + 1])]
             /\ \A j \in 1..Len(active) : Head(active) <= active[j]
             /\ active' = active
             /\ segOut' = segOut]_vars

(* C17 witness: a segment other than the first is running its own        *)
(* iterator and holds an item it pulled itself.                            *)
C17_Witness ==
    /\ fn = "split"
    /\ \E i \in 2..Len(buffers) :
          /\ cur = Seg(i)
          /\ active = <<i>>
          /\ segOut[i] # <<>>
          /\ buffers[i] # <<>>

(* C20: the active set never holds more than one segment, and the segment  *)
(* it holds is the most recently created one.                              *)
C20_AtMostOneActive ==
    fn = "split" =>
        /\ Len(active) <= 1
        /\ active # <<>> => Head(active) = Len(buffers)

(* C20 witness: a later segment is the only active one, after an earlier   *)
(* one was retired, and it has received an item.                           *)
C20_Witness ==
    /\ fn = "split"
    /\ Len(buffers) >= 2
    /\ active = <<Len(buffers)>>
    /\ buffers[Len(buffers)] # <<>>

C11_DrainedStaysDrained ==
    [][/\ \A k \in Keys : GroupFinished(k) => groupOut'[k] = groupOut[k]
       /\ \A i \in 1..Len(segPc) : SegFinished(i) => segOut'[i] = segOut[i]
       /\ \A h \in 1..2 : halfPc[h] = "done" => halfOut'[h] = halfOut[h]]_vars

(* C18: the condition of partition has been evaluated exactly once on each *)
(* item pulled so far, in source order, and on nothing else.               *)
C18_ConditionOncePerItem ==
    fn = "partition" => evals = SubSeq(source, 1, pos)

(* C18 witness: both halves drained with their pulls interleaved, each     *)
(* half having taken items the other one pulled.                           *)
C18_Witness ==
    /\ PartitionDone
    /\ Len(evals) >= 3
    /\ halfOut[1] # <<>>
    /\ halfOut[2] # <<>>
    /\ Condition(source[1]) /\ ~Condition(source[2]) /\ Condition(source[3])

(* The chunks one after another. *)
RECURSIVE Flatten(_)
Flatten(ss) == IF ss = <<>> THEN <<>> ELSE Head(ss) \o Flatten(Tail(ss))

ChunksDone == fn = "chunks" /\ cur = Idle /\ zlPc = "done"

(* C14: chunks yields ceil(L/n) tuples of n elements each, which put       *)
(* together are the source followed by fewer than n copies of fillvalue;   *)
(* so only the last chunk is padded and an empty source gives no chunk.    *)
C14_ChunksPadded ==
    ChunksDone =>
        LET count == (Len(source) + chunkSize - 1) \div chunkSize
            pad == count * chunkSize - Len(source)
        IN /\ Len(chunksOut) = count
           /\ \A c \in 1..Len(chunksOut) : Len(chunksOut[c]) = chunkSize
           /\ pad < chunkSize
           /\ Flatten(chunksOut) = source \o [j \in 1..pad |-> fillvalue]

(* C14 witness: a source that is no multiple of n > 1 chunked to its end, with a padded last chunk. *)
C14_Witness ==
    /\ ChunksDone
    /\ chunkSize = 3
    /\ Len(source) = 4
    /\ Len(chunksOut) = 2
    /\ chunksOut[2][2] = fillvalue

(* C13: a pull in which the user function raises leaves the item in the    *)
(* source and the buffers, the active segments, the tee queues and the     *)
(* seen keys as they were before the pull.                                 *)
C13_RaiseLosesNothing ==
    [][(~raised /\ raised') =>
          /\ pos' = pos
          /\ active' = active
          /\ buffers' = buffers
          /\ teeBuf' = teeBuf
          /\ kbuffers' = kbuffers
          /\ seen_keys' = seen_keys]_vars

====
